---- MODULE Spec2Model ----
(***************************************************************************)
(* A model of the generalized rock-paper-scissors engine of src/logic.py   *)
(* and of the program built from it in src/rock_paper_scissors.py.         *)
(*                                                                         *)
(* Python values are represented as follows.                               *)
(*   - a list is a sequence; list positions are 1-based here (0-based in   *)
(*     the source), so relations[i][j] of the source is relations[i+1][j+1]*)
(*   - a Result member is the string of its name ("WIN", "TIE", "LOSE")    *)
(*   - Optional[int] is a set of at most one integer ({} is None)          *)
(*   - a call's outcome is a record [err, val]: err = "none" and the       *)
(*     returned value, or the name of the exception raised                 *)
(*   - the floats of play_weighted_random are exact multiples of           *)
(*     1/WeightScale(n), kept as integers                                  *)
(***************************************************************************)
EXTENDS Integers, Sequences, FiniteSets, TLC

VARIABLES
    selections,         \* game.selection_set.selections
    relations,          \* game.selection_set.relations
    player1_kind,       \* class of handler.player1
    player2_kind,       \* class of handler.player2
    player1_history,    \* handler.player1.history
    player2_history,    \* handler.player2.history
    history,            \* handler.history
    pc,                 \* position of control inside play_turn, "idle" outside
    mode,               \* the top-level call in progress: "none", "play_turn", "play"
    max_num_of_turns,   \* argument of play (a set: {} is None)
    i_turn,             \* local of play
    player1_move,       \* local of play_turn
    player2_move,       \* local of play_turn
    play_turn_calls,    \* play_turn invocations made by the current or last play()
    turns_returned,     \* play_turn executions that returned normally so far
    ret,                \* how the latest call ended: [op, args, err, val]; NoCall while it runs
    answers             \* what input() has returned to the current or last ask_move

vars == <<selections, relations, player1_kind, player2_kind, player1_history,
          player2_history, history, pc, mode, max_num_of_turns, i_turn,
          player1_move, player2_move, play_turn_calls, turns_returned, ret,
          answers>>

gameVars == <<player1_kind, player2_kind, player1_history, player2_history,
              history, pc, mode, max_num_of_turns, i_turn, player1_move,
              player2_move, play_turn_calls, turns_returned, answers>>

-----------------------------------------------------------------------------
(* Bounds of the model *)

\* largest number of selections of an enumerated SelectionSet
MaxSel == 2

\* largest length of the handler history explored
MaxHistory == 3

-----------------------------------------------------------------------------
(* Result and SelectionSet *)

WIN == "WIN"
TIE == "TIE"
LOSE == "LOSE"

\* the members of the enum, in definition order
ResultMembers == <<WIN, TIE, LOSE>>

\* the value of each member
ResultValue == [r \in {WIN, TIE, LOSE} |->
                    CASE r = WIN -> 1 [] r = TIE -> 0 [] r = LOSE -> -1]

IsResultValue(v) == \E r \in DOMAIN ResultValue : ResultValue[r] = v

\* Result(v): lookup of a member by value
Result(v) == CHOOSE r \in DOMAIN ResultValue : ResultValue[r] = v

Ok(v) == [err |-> "none", val |-> v]
Raise(e) == [err |-> e, val |-> <<>>]

\* the members of a list
Members(lst) == { lst[i] : i \in 1..Len(lst) }

\* x in lst
In(x, lst) == \E i \in 1..Len(lst) : lst[i] = x

\* lst.index(x): the first position holding x
Index(lst, x) == CHOOSE i \in 1..Len(lst) :
                    /\ lst[i] = x
                    /\ \A j \in 1..(i - 1) : lst[j] # x

get_result_same_cell(sels, rels, selection1, selection2) ==
    IF ~In(selection1, sels) THEN Raise("AssertionError")
    ELSE IF ~In(selection2, sels) THEN Raise("AssertionError")
    ELSE LET index1 == Index(sels, selection1)
             index2 == Index(sels, selection2)
         IN  Ok(<<Result(rels[index1][index2]), Result(rels[index1][index2])>>)

get_result_unchecked_second(sels, rels, selection1, selection2) ==
    IF ~In(selection1, sels) THEN Raise("AssertionError")
    ELSE LET index1 == Index(sels, selection1)
             index2 == IF In(selection2, sels) THEN Index(sels, selection2) ELSE index1
         IN  Ok(<<Result(rels[index1][index2]), Result(rels[index2][index1])>>)

get_result_transposed(sels, rels, selection1, selection2) ==
    IF ~In(selection1, sels) THEN Raise("AssertionError")
    ELSE IF ~In(selection2, sels) THEN Raise("AssertionError")
    ELSE LET index1 == Index(sels, selection1)
             index2 == Index(sels, selection2)
         IN  Ok(<<Result(rels[index2][index1]), Result(rels[index1][index2])>>)

get_result_negated(sels, rels, selection1, selection2) ==
    IF ~In(selection1, sels) THEN Raise("AssertionError")
    ELSE IF ~In(selection2, sels) THEN Raise("AssertionError")
    ELSE LET index1 == Index(sels, selection1)
             index2 == Index(sels, selection2)
         IN  Ok(<<Result(rels[index1][index2]), Result(-rels[index1][index2])>>)

\* SelectionSet.get_result
get_result(sels, rels, selection1, selection2) ==
    IF ~In(selection1, sels) THEN Raise("AssertionError")
    ELSE IF ~In(selection2, sels) THEN Raise("AssertionError")
    ELSE LET index1 == Index(sels, selection1)
             index2 == Index(sels, selection2)
             v12 == rels[index1][index2]
             v21 == rels[index2][index1]
         IN  IF IsResultValue(v12) /\ IsResultValue(v21)
             THEN Ok(<<Result(v12), Result(v21)>>)
             ELSE Raise("ValueError")

-----------------------------------------------------------------------------
(* The selection sets explored *)

\* the SelectionSet of src/rock_paper_scissors.py
ClassicSelections == <<"rock", "paper", "scissors">>
ClassicRelations == <<<<0, -1, 1>>, <<1, 0, -1>>, <<-1, 1, 0>>>>

\* names for the selections of the enumerated sets
SelectionName(i) == "s" \o ToString(i)

\* a value no SelectionSet here holds (what Player.play returns)
NoneMove == "None"

\* the entries a relations matrix is given
RelationEntries == {-1, 0, 1}

\* lists of n names: all different, reversed, and with the first name repeated
SelectionLists(n) ==
    { [i \in 1..n |-> SelectionName(i)],
      [i \in 1..n |-> SelectionName(n + 1 - i)],
      [i \in 1..n |-> IF i = n THEN SelectionName(1) ELSE SelectionName(i)] }

SelectionSets ==
    { <<ClassicSelections, ClassicRelations>> } \cup
    UNION { SelectionLists(n) \X [1..n -> [1..n -> RelationEntries]] : n \in 1..MaxSel }

-----------------------------------------------------------------------------
(* ComputerPlayer strategies *)

\* lst.count(x)
RECURSIVE Count(_, _)
Count(lst, x) ==
    IF lst = <<>> THEN 0
    ELSE (IF Head(lst) = x THEN 1 ELSE 0) + Count(Tail(lst), x)

RECURSIVE Factorial(_)
Factorial(n) == IF n <= 1 THEN 1 ELSE n * Factorial(n - 1)

\* the unit of the weights: a weight w of the source is kept as the integer
\* w * WeightScale(rels); every total_count divides it
WeightScale(rels) == Factorial(Len(rels))

Weight_lose_rate(rels, s_relation) ==
    LET lose_count == Count(s_relation, -1)
        win_count == Count(s_relation, 1)
        total_count == win_count + lose_count
    IN  IF total_count = 0 THEN 0
        ELSE (lose_count * WeightScale(rels)) \div total_count

\* the body of the loop of play_weighted_random: the weight of one row
Weight(rels, s_relation) ==
    LET lose_count == Count(s_relation, -1)
        win_count == Count(s_relation, 1)
        total_count == win_count + lose_count
    IN  IF total_count = 0 THEN 0
        ELSE (win_count * WeightScale(rels)) \div total_count

\* selections_weights after the loop
SelectionsWeights(rels) == [i \in 1..Len(rels) |-> Weight(rels, rels[i])]

\* itertools.accumulate(weights), as random.choices computes cum_weights
RECURSIVE Accumulate(_)
Accumulate(weights) ==
    IF weights = <<>> THEN <<>>
    ELSE LET n == Len(weights)
             before == Accumulate(SubSeq(weights, 1, n - 1))
         IN  Append(before, (IF n = 1 THEN 0 ELSE before[n - 1]) + weights[n])

\* bisect.bisect(a, x, 0, hi) on a sorted list: the position after the last
\* of the first hi entries that is <= x
Bisect(a, x, hi) == Cardinality({ i \in 1..hi : a[i] <= x }) + 1

\* random.choices(population, weights, k=1)[0], where the draw random() * total
\* falls in the unit interval [x, x + 1) of the scaled weights
Choices(population, weights, x) ==
    LET cum_weights == Accumulate(weights)
        n == Len(population)
    IN  IF Len(cum_weights) # n THEN Raise("ValueError")
        ELSE IF n = 0 THEN Raise("IndexError")
        ELSE IF cum_weights[n] <= 0 THEN Raise("ValueError")
        ELSE Ok(population[Bisect(cum_weights, x, n - 1)])

\* the draws random() * total can give: 0 <= draw < total
Draws(rels) ==
    LET cum_weights == Accumulate(SelectionsWeights(rels))
        total == IF cum_weights = <<>> THEN 0 ELSE cum_weights[Len(cum_weights)]
    IN  IF total <= 0 THEN {0} ELSE 0..(total - 1)

\* ComputerPlayer.play_weighted_random
play_weighted_random(sels, rels, x) ==
    Choices(sels, SelectionsWeights(rels), x)

\* ComputerPlayer.play_uniformly_random: random.choice(selections) with the
\* position k drawn
play_uniformly_random(sels, k) ==
    IF Len(sels) = 0 THEN Raise("IndexError") ELSE Ok(sels[k])

-----------------------------------------------------------------------------
(* The calls on a SelectionSet and on the strategies.  They are functions of *)
(* the set and of their arguments and assign nothing, so every call starts   *)
(* from the state the constructors left: one call is explored per set.       *)

NoCall == [op |-> "none", args |-> <<>>, err |-> "none", val |-> <<>>]

Returned(op, args, outcome) ==
    [op |-> op, args |-> args, err |-> outcome.err, val |-> outcome.val]

\* a handler over the game, as GameHandler.__init__ and Player.__init__ leave it
InitHandler ==
    /\ player1_history = <<>>
    /\ player2_history = <<>>
    /\ history = <<>>
    /\ pc = "idle"
    /\ mode = "none"
    /\ max_num_of_turns = {}
    /\ i_turn = 0
    /\ player1_move = NoneMove
    /\ player2_move = NoneMove
    /\ play_turn_calls = 0
    /\ turns_returned = 0
    /\ ret = NoCall
    /\ answers = <<>>

InitSel ==
    /\ \E ss \in SelectionSets : selections = ss[1] /\ relations = ss[2]
    /\ player1_kind = "HumanPlayer"
    /\ player2_kind = "ComputerPlayer"
    /\ InitHandler

\* the strings handed to a call on the current set: its members, a name that
\* is not one of them, and None
Arguments == { selections[i] : i \in 1..Len(selections) }
                \cup { SelectionName(Len(selections) + 1), NoneMove }

CallGetResult ==
    \E selection1 \in Arguments, selection2 \in Arguments :
        /\ ret.op = "none"
        /\ ret' = Returned("get_result", <<selection1, selection2>>,
                           get_result(selections, relations, selection1, selection2))
        /\ UNCHANGED <<selections, relations, gameVars>>

CallPlayWeightedRandom ==
    \E x \in Draws(relations) :
        /\ ret.op = "none"
        /\ ret' = Returned("play_weighted_random", <<x>>,
                           play_weighted_random(selections, relations, x))
        /\ UNCHANGED <<selections, relations, gameVars>>

CallPlayUniformlyRandom ==
    \E k \in 1..Len(selections) :
        /\ ret.op = "none"
        /\ ret' = Returned("play_uniformly_random", <<k>>,
                           play_uniformly_random(selections, k))
        /\ UNCHANGED <<selections, relations, gameVars>>

NextSel ==
    \/ CallGetResult
    \/ CallPlayWeightedRandom
    \/ CallPlayUniformlyRandom

SpecSel == InitSel /\ [][NextSel]_vars

-----------------------------------------------------------------------------
(* Players *)

observe_swapped(h, player_move, opponent_move, player_result, opponent_result) ==
    Append(h, [player_move |-> opponent_move,
               opponent_move |-> player_move,
               player_result |-> player_result,
               opponent_result |-> opponent_result])

observe_prepending(h, player_move, opponent_move, player_result, opponent_result) ==
    <<[player_move |-> player_move,
       opponent_move |-> opponent_move,
       player_result |-> player_result,
       opponent_result |-> opponent_result]>> \o h

\* the record Player.observe appends
observe(h, player_move, opponent_move, player_result, opponent_result) ==
    Append(h, [player_move |-> player_move,
               opponent_move |-> opponent_move,
               player_result |-> player_result,
               opponent_result |-> opponent_result])

Lower(answer) == IF answer = "Rock" THEN "rock" ELSE answer

parse_move_ignoring_case(answer, sels) ==
    IF In(Lower(answer), sels) THEN {answer} ELSE {}

\* HumanPlayer.parse_move: the answer itself if it is a selection, else None
parse_move(answer, sels) == IF In(answer, sels) THEN {answer} ELSE {}

\* what input() can give the human player: a selection, a selection in
\* another case, an empty line, any other text
Answers == Members(selections) \cup {"Rock", "", "lizard"}

\* The moves one execution of player.play(game) can end with, by the class of
\* the player.  HumanPlayer.ask_move returns the first answer parse_move
\* accepts; ComputerPlayer.play draws uniformly; Player.play returns None; a
\* subclass of Player that overrides play returns what it likes, a selection
\* or not.
PlayedMoves(kind) ==
    CASE kind = "HumanPlayer" ->
             UNION { parse_move(answer, selections) : answer \in Answers }
      [] kind = "ComputerPlayer" ->
             { play_uniformly_random(selections, k).val : k \in 1..Len(selections) }
      [] kind = "Player" -> { NoneMove }
      [] kind = "PlayerSubclass" -> Members(selections) \cup { NoneMove }

\* the two players a handler is built with
PlayerPairs ==
    ({"HumanPlayer", "ComputerPlayer", "Player"}
        \X {"HumanPlayer", "ComputerPlayer", "Player"})
    \cup { <<"PlayerSubclass", "PlayerSubclass">> }

-----------------------------------------------------------------------------
(* HumanPlayer.ask_move, one answer of input() at a time.  The handler     *)
(* actions below take a human's play as a whole (PlayedMoves).              *)

\* bound: the answers one ask_move is given
MaxAnswers == 4

\* the human player is asked for a move: play calls ask_move
CallAskMove ==
    /\ pc = "idle"
    /\ pc' = "ask_move"
    /\ answers' = <<>>
    /\ ret' = NoCall
    /\ UNCHANGED <<selections, relations, player1_kind, player2_kind,
                   player1_history, player2_history, history, mode,
                   max_num_of_turns, i_turn, player1_move, player2_move,
                   play_turn_calls, turns_returned>>

\* one round of the loop of ask_move: input(), parse_move, and the return if
\* the answer parsed
AskMoveAnswer ==
    /\ pc = "ask_move"
    /\ Len(answers) < MaxAnswers
    /\ \E answer \in Answers :
           LET parsed_move == parse_move(answer, selections)
           IN  /\ answers' = Append(answers, answer)
               /\ IF parsed_move # {}
                  THEN /\ ret' = Returned("ask_move", <<>>,
                                          Ok(CHOOSE move \in parsed_move : TRUE))
                       /\ pc' = "idle"
                  ELSE UNCHANGED <<ret, pc>>
    /\ UNCHANGED <<selections, relations, player1_kind, player2_kind,
                   player1_history, player2_history, history, mode,
                   max_num_of_turns, i_turn, player1_move, player2_move,
                   play_turn_calls, turns_returned>>

\* a human player of the game of src/rock_paper_scissors.py
InitAsk ==
    /\ selections = ClassicSelections
    /\ relations = ClassicRelations
    /\ player1_kind = "HumanPlayer"
    /\ player2_kind = "ComputerPlayer"
    /\ InitHandler

NextAsk ==
    \/ CallAskMove
    \/ AskMoveAnswer

SpecAsk == InitAsk /\ [][NextAsk]_vars

-----------------------------------------------------------------------------
(* GameHandler *)

add_turn_to_history_overwriting(h, player1_move_, player2_move_, player1_result, player2_result) ==
    LET turn == [player1_move |-> player1_move_,
                 player2_move |-> player2_move_,
                 player1_result |-> player1_result,
                 player2_result |-> player2_result]
    IN  IF h = <<>> THEN <<turn>> ELSE [h EXCEPT ![Len(h)] = turn]

\* GameHandler.add_turn_to_history
add_turn_to_history(h, player1_move_, player2_move_, player1_result, player2_result) ==
    Append(h, [player1_move |-> player1_move_,
               player2_move |-> player2_move_,
               player1_result |-> player1_result,
               player2_result |-> player2_result])

\* tmp_dct of get_current_result: every member of Result counted 0
tmp_dct == [result \in { ResultMembers[i] : i \in 1..Len(ResultMembers) } |-> 0]

\* the loop of get_current_result over the history
RECURSIVE ScanHistory(_, _)
ScanHistory(h, result_counts_by_player) ==
    IF h = <<>> THEN result_counts_by_player
    ELSE LET turn_result == Head(h)
             after1 == [result_counts_by_player EXCEPT
                            !["player1"][turn_result.player1_result] = @ + 1]
             after2 == [after1 EXCEPT
                            !["player2"][turn_result.player2_result] = @ + 1]
         IN  ScanHistory(Tail(h), after2)

\* the loop when both players are given the same dict instead of a copy each
RECURSIVE ScanHistoryShared(_, _)
ScanHistoryShared(h, counts) ==
    IF h = <<>> THEN counts
    ELSE LET turn_result == Head(h)
             after1 == [counts EXCEPT ![turn_result.player1_result] = @ + 1]
             after2 == [after1 EXCEPT ![turn_result.player2_result] = @ + 1]
         IN  ScanHistoryShared(Tail(h), after2)

get_current_result_shared_dict(h) ==
    LET counts == ScanHistoryShared(h, tmp_dct)
    IN  [player \in {"player1", "player2"} |-> counts]

\* GameHandler.get_current_result
get_current_result(h) ==
    ScanHistory(h, [player \in {"player1", "player2"} |-> tmp_dct])

TurnLimitReached_or_no_limit(i, limit) == limit = {} \/ i \in limit

\* the test of play: i_turn == max_num_of_turns
TurnLimitReached(i, limit) == i \in limit

\* the arguments play is called with: None, or a number of turns
TurnLimits == { {} } \cup { {n} : n \in 0..MaxHistory }

Init ==
    /\ selections = ClassicSelections
    /\ relations = ClassicRelations
    /\ \E pair \in PlayerPairs : player1_kind = pair[1] /\ player2_kind = pair[2]
    /\ InitHandler

\* the caller invokes handler.play_turn()
CallPlayTurn ==
    /\ pc = "idle"
    /\ Len(history) < MaxHistory
    /\ mode' = "play_turn"
    /\ pc' = "player1_play"
    /\ ret' = NoCall
    /\ UNCHANGED <<answers, selections, relations, player1_kind, player2_kind,
                   player1_history, player2_history, history, max_num_of_turns,
                   i_turn, player1_move, player2_move, play_turn_calls,
                   turns_returned>>

\* the caller invokes handler.play(limit): i_turn = 0 and the first play_turn
CallPlay ==
    \E limit \in TurnLimits :
        /\ pc = "idle"
        /\ Len(history) < MaxHistory
        /\ \A n \in limit : Len(history) + n <= MaxHistory
        /\ mode' = "play"
        /\ max_num_of_turns' = limit
        /\ i_turn' = 0
        /\ play_turn_calls' = 1
        /\ pc' = "player1_play"
        /\ ret' = NoCall
        /\ UNCHANGED <<answers, selections, relations, player1_kind, player2_kind,
                       player1_history, player2_history, history, player1_move,
                       player2_move, turns_returned>>

Player1Play_shown_to_player2 ==
    /\ pc = "player1_play"
    /\ Len(history) < MaxHistory
    /\ \E move \in PlayedMoves(player1_kind) :
           /\ player1_move' = move
           /\ player2_history' = observe(player2_history, NoneMove, move, TIE, TIE)
    /\ pc' = "player2_play"
    /\ UNCHANGED <<answers, selections, relations, player1_kind, player2_kind,
                   player1_history, history, mode,
                   max_num_of_turns, i_turn, player2_move, play_turn_calls,
                   turns_returned, ret>>

\* play_turn: player1_move = self.player1.play(self.game)
Player1Play ==
    /\ pc = "player1_play"
    /\ Len(history) < MaxHistory
    /\ \E move \in PlayedMoves(player1_kind) : player1_move' = move
    /\ pc' = "player2_play"
    /\ UNCHANGED <<answers, selections, relations, player1_kind, player2_kind,
                   player1_history, player2_history, history, mode,
                   max_num_of_turns, i_turn, player2_move, play_turn_calls,
                   turns_returned, ret>>

\* play_turn: player2_move = self.player2.play(self.game)
Player2Play ==
    /\ pc = "player2_play"
    /\ \E move \in PlayedMoves(player2_kind) : player2_move' = move
    /\ pc' = "resolve"
    /\ UNCHANGED <<answers, selections, relations, player1_kind, player2_kind,
                   player1_history, player2_history, history, mode,
                   max_num_of_turns, i_turn, player1_move, play_turn_calls,
                   turns_returned, ret>>

\* play_turn from get_result to its end and, inside play, the rest of the
\* loop body: the exception of get_result leaves play_turn and play; otherwise
\* both players observe, the turn is added to the history, and play counts the
\* turn and either breaks or calls play_turn again
ResolveTurn ==
    /\ pc = "resolve"
    /\ LET outcome == get_result(selections, relations, player1_move, player2_move)
       IN  IF outcome.err # "none"
           THEN /\ ret' = Returned(mode, <<>>, outcome)
                /\ pc' = "idle"
                /\ mode' = "none"
                /\ UNCHANGED <<player1_history, player2_history, history,
                               i_turn, play_turn_calls, turns_returned>>
           ELSE LET player1_result == outcome.val[1]
                    player2_result == outcome.val[2]
                IN  /\ player1_history' = observe(player1_history, player1_move,
                             player2_move, player1_result, player2_result)
                    /\ player2_history' = observe(player2_history, player2_move,
                             player1_move, player2_result, player1_result)
                    /\ history' = add_turn_to_history(history, player1_move,
                             player2_move, player1_result, player2_result)
                    /\ turns_returned' = turns_returned + 1
                    /\ IF mode = "play_turn"
                       THEN /\ ret' = Returned("play_turn", <<>>, Ok(<<>>))
                            /\ pc' = "idle"
                            /\ mode' = "none"
                            /\ UNCHANGED <<i_turn, play_turn_calls>>
                       ELSE /\ i_turn' = i_turn + 1
                            /\ IF TurnLimitReached(i_turn', max_num_of_turns)
                               THEN /\ ret' = Returned("play", <<>>, Ok(<<>>))
                                    /\ pc' = "idle"
                                    /\ mode' = "none"
                                    /\ UNCHANGED play_turn_calls
                               ELSE /\ pc' = "player1_play"
                                    /\ play_turn_calls' = play_turn_calls + 1
                                    /\ UNCHANGED <<mode, ret>>
    /\ UNCHANGED <<answers, selections, relations, player1_kind, player2_kind,
                   max_num_of_turns, player1_move, player2_move>>

\* the caller invokes handler.get_current_result()
CallGetCurrentResult ==
    /\ pc = "idle"
    /\ ret' = Returned("get_current_result", <<>>, Ok(get_current_result(history)))
    /\ UNCHANGED <<selections, relations, gameVars>>

Next ==
    \/ CallPlayTurn
    \/ CallPlay
    \/ Player1Play
    \/ Player2Play
    \/ ResolveTurn
    \/ CallGetCurrentResult

Spec == Init /\ [][Next]_vars

\* the handler of src/rock_paper_scissors.py: a human against the computer
InitMain ==
    /\ selections = ClassicSelections
    /\ relations = ClassicRelations
    /\ player1_kind = "HumanPlayer"
    /\ player2_kind = "ComputerPlayer"
    /\ InitHandler

\* The program is one thread: a call that has started goes on, every play of
\* a player that answers returns, and the statements after it are executed.
SpecMain ==
    /\ InitMain
    /\ [][Next]_vars
    /\ WF_vars(Player1Play)
    /\ WF_vars(Player2Play)
    /\ WF_vars(ResolveTurn)

-----------------------------------------------------------------------------
(* Properties of SelectionSet.get_result, checked under SpecSel *)

Unique(lst) == \A i, j \in 1..Len(lst) : lst[i] = lst[j] => i = j

Square(rels, n) == Len(rels) = n /\ \A i \in 1..n : Len(rels[i]) = n

\* the mapping of the data model: 1 -> WIN, 0 -> TIE, -1 -> LOSE
Outcome(v) == CASE v = 1 -> WIN [] v = 0 -> TIE [] v = -1 -> LOSE

WellFormedSet ==
    /\ Unique(selections)
    /\ Square(relations, Len(selections))
    /\ \A i, j \in 1..Len(relations) : relations[i][j] \in {-1, 0, 1}

GotResult == ret.op = "get_result" /\ ret.err = "none"

\* C1: on a set with unique selections and a square matrix over {-1, 0, 1},
\* a call get_result(s1, s2) on the members at positions i1 and i2 returns
\* (map(relations[i1][i2]), map(relations[i2][i1])) and leaves selections
\* and relations as they were.
C1_GetResultLookup ==
    [][ (ret'.op = "get_result" /\ WellFormedSet) =>
            /\ selections' = selections
            /\ relations' = relations
            /\ \A i1, i2 \in 1..Len(selections) :
                   ret'.args = <<selections[i1], selections[i2]>> =>
                       /\ ret'.err = "none"
                       /\ ret'.val = <<Outcome(relations[i1][i2]),
                                       Outcome(relations[i2][i1])>> ]_vars

C1_Witness ==
    /\ GotResult
    /\ WellFormedSet
    /\ Len(selections) >= 2
    /\ ret.args = <<selections[2], selections[1]>>
    /\ ret.val = <<WIN, TIE>>

\* C2: on the classic set, get_result("rock", "scissors") is (WIN, LOSE),
\* get_result("paper", "paper") is (TIE, TIE) and
\* get_result("scissors", "paper") is (WIN, LOSE).
C2_ClassicResults ==
    (ret.op = "get_result" /\ selections = ClassicSelections
                           /\ relations = ClassicRelations) =>
        /\ ret.args = <<"rock", "scissors">> =>
               ret.err = "none" /\ ret.val = <<WIN, LOSE>>
        /\ ret.args = <<"paper", "paper">> =>
               ret.err = "none" /\ ret.val = <<TIE, TIE>>
        /\ ret.args = <<"scissors", "paper">> =>
               ret.err = "none" /\ ret.val = <<WIN, LOSE>>

C2_Witness ==
    /\ selections = ClassicSelections
    /\ relations = ClassicRelations
    /\ ret.op = "get_result"
    /\ ret.args = <<"scissors", "paper">>
    /\ ret.val = <<WIN, LOSE>>

\* C3: for every selection a of a SelectionSet, get_result(a, a) yields
\* (TIE, TIE).
C3_SelfPlayTies ==
    (GotResult /\ ret.args[1] = ret.args[2]) => ret.val = <<TIE, TIE>>

\* C4: if get_result(a, b) returned (r1, r2), then get_result(b, a) returns
\* (r2, r1).
C4_SwapSymmetry ==
    GotResult =>
        LET swapped == get_result(selections, relations, ret.args[2], ret.args[1])
        IN  swapped.err = "none" /\ swapped.val = <<ret.val[2], ret.val[1]>>

C4_Witness ==
    /\ GotResult
    /\ ret.args[1] # ret.args[2]
    /\ ret.val = <<LOSE, TIE>>
    /\ get_result(selections, relations, ret.args[2], ret.args[1]).val = <<TIE, LOSE>>

\* C5: the two outcomes get_result returns are complementary: (WIN, LOSE),
\* (LOSE, WIN) or (TIE, TIE).
C5_Complementary ==
    GotResult => ret.val \in { <<WIN, LOSE>>, <<LOSE, WIN>>, <<TIE, TIE>> }

\* C6: get_result raises the invalid-selection error, and returns no pair,
\* whenever its first or its second argument is not a member of selections;
\* it returns a pair only when both are members.
C6_InvalidSelection ==
    ret.op = "get_result" =>
        /\ (ret.args[1] \notin Members(selections)
                \/ ret.args[2] \notin Members(selections)) =>
               ret.err = "AssertionError" /\ ret.val = <<>>
        /\ ret.err = "none" =>
               /\ ret.args[1] \in Members(selections)
               /\ ret.args[2] \in Members(selections)
               /\ ret.val \in {WIN, TIE, LOSE} \X {WIN, TIE, LOSE}

C6_Witness ==
    /\ ret.op = "get_result"
    /\ ret.args[1] \in Members(selections)
    /\ ret.args[2] \notin Members(selections)
    /\ ret.err = "AssertionError"

-----------------------------------------------------------------------------
(* Properties of the weighted strategy, checked under SpecSel *)

Wins(row) == Cardinality({ j \in 1..Len(row) : row[j] = 1 })
Losses(row) == Cardinality({ j \in 1..Len(row) : row[j] = -1 })
AlwaysLoses(row) == \A j \in 1..Len(row) : row[j] = -1

\* C10: the weight of selection i is wins / (wins + losses) of its row, and 0
\* when the row has neither; a row of -1 only has weight 0; the weighted
\* strategy returns only selections of positive weight, so on a set of unique
\* selections never one whose row is all -1.
C10_WeightedStrategy ==
    LET weights == SelectionsWeights(relations)
        unit == WeightScale(relations)
    IN  /\ \A i \in 1..Len(relations) :
               LET wins == Wins(relations[i])
                   losses == Losses(relations[i])
               IN  /\ (wins + losses = 0) => weights[i] = 0
                   /\ (wins + losses > 0) =>
                          weights[i] * (wins + losses) = wins * unit
                   /\ AlwaysLoses(relations[i]) => weights[i] = 0
        /\ (ret.op = "play_weighted_random" /\ ret.err = "none") =>
               /\ \E i \in 1..Len(selections) :
                      selections[i] = ret.val /\ weights[i] > 0
               /\ Unique(selections) =>
                      \A i \in 1..Len(selections) :
                          AlwaysLoses(relations[i]) => ret.val # selections[i]

C10_Witness ==
    /\ ret.op = "play_weighted_random"
    /\ ret.err = "none"
    /\ Unique(selections)
    /\ Len(selections) >= 2
    /\ AlwaysLoses(relations[1])
    /\ ret.val = selections[2]

-----------------------------------------------------------------------------
(* Properties of GameHandler, checked under Spec *)

\* the sum of the three counts of one player in a tally
TallySum(tally, player) ==
    tally[player][WIN] + tally[player][TIE] + tally[player][LOSE]

\* the records of the handler history that carry a result for a player
Carrying(h, field, result) == { k \in 1..Len(h) : h[k][field] = result }

GotCurrentResult == ret.op = "get_current_result" /\ ret.err = "none"

\* C7: after N >= 1 turns of a new handler have been played, its history has
\* length N and the counts get_current_result() returns sum to N for player1
\* and to N for player2.
C7_TurnsCounted ==
    turns_returned >= 1 =>
        /\ pc = "idle" => Len(history) = turns_returned
        /\ GotCurrentResult =>
               /\ TallySum(ret.val, "player1") = turns_returned
               /\ TallySum(ret.val, "player2") = turns_returned

C7_Witness ==
    /\ GotCurrentResult
    /\ turns_returned = 3
    /\ Len(history) = 3
    /\ ret.val["player1"] = [r \in {WIN, TIE, LOSE} |-> 1]

\* C8: for every finite non-negative maxTurns, play(maxTurns) makes no more
\* than maxTurns calls of play_turn, and has made exactly maxTurns when it
\* returns.
C8_PlayStopsAtMax ==
    /\ mode = "play" => \A n \in max_num_of_turns : play_turn_calls <= n
    /\ (pc = "idle" /\ ret.op = "play" /\ ret.err = "none") =>
           \A n \in max_num_of_turns : play_turn_calls = n

\* C9: get_current_result() leaves the three histories as they are; each
\* count it returns is the number of records of the handler history with that
\* result for that player; a second call with no play_turn in between returns
\* the same mapping.
C9_CurrentResult ==
    [][ GotCurrentResult' =>
            /\ history' = history
            /\ player1_history' = player1_history
            /\ player2_history' = player2_history
            /\ \A result \in {WIN, TIE, LOSE} :
                   /\ ret'.val["player1"][result] =
                          Cardinality(Carrying(history, "player1_result", result))
                   /\ ret'.val["player2"][result] =
                          Cardinality(Carrying(history, "player2_result", result))
            /\ GotCurrentResult => ret'.val = ret.val ]_vars

C9_Witness ==
    /\ GotCurrentResult
    /\ Len(history) = 2
    /\ ret.val["player1"][WIN] = 2
    /\ ret.val["player2"][LOSE] = 2

-----------------------------------------------------------------------------
(* Properties of the strategies of ComputerPlayer, checked under SpecSel *)

\* C11: on a set of at least one selection, the uniform strategy behind play
\* and the weighted strategy play_weighted_random each return a member of
\* selections and never fail.
C11_AutomatedValidMove ==
    (ret.op \in {"play_uniformly_random", "play_weighted_random"}
        /\ Len(selections) >= 1) =>
        ret.err = "none" /\ ret.val \in Members(selections)

-----------------------------------------------------------------------------
(* Properties of play_turn and of the histories, checked under Spec *)

Last(s) == s[Len(s)]

IsPrefix(s, t) == Len(s) <= Len(t) /\ SubSeq(t, 1, Len(s)) = s

Valid(move) == move \in Members(selections)

\* a move that is no selection has been returned in the turn in progress
InvalidMovePending ==
    \/ pc = "player2_play" /\ ~Valid(player1_move)
    \/ pc = "resolve" /\ (~Valid(player1_move) \/ ~Valid(player2_move))

\* C12: when a player has returned a move that is not in the SelectionSet, the
\* turn appends nothing to the three histories, and play_turn ends with the
\* invalid-selection error, the histories and the tallies being what they
\* were before the call.
C12_FailedTurnChangesNothing ==
    [][ InvalidMovePending =>
            /\ player1_history' = player1_history
            /\ player2_history' = player2_history
            /\ history' = history
            /\ get_current_result(history') = get_current_result(history)
            /\ pc = "resolve" =>
                   /\ pc' = "idle"
                   /\ ret'.op = mode
                   /\ ret'.err = "AssertionError" ]_vars

C12_Witness ==
    /\ pc = "idle"
    /\ ret.op = "play_turn"
    /\ ret.err = "AssertionError"
    /\ Valid(player1_move)
    /\ ~Valid(player2_move)
    /\ Len(history) = 2
    /\ Len(player1_history) = 2

\* C13: a play_turn that succeeds with moves m1, m2 and
\* (r1, r2) = get_result(m1, m2) leaves (m1, m2, r1, r2) as the last record of
\* the handler history, (m1, m2, r1, r2) as the last record of player1's
\* history and (m2, m1, r2, r1) as the last record of player2's history.
C13_TurnRecorded ==
    [][ (pc = "resolve" /\ turns_returned' = turns_returned + 1) =>
            LET outcome == get_result(selections, relations,
                                      player1_move, player2_move)
                r1 == outcome.val[1]
                r2 == outcome.val[2]
            IN  /\ outcome.err = "none"
                /\ history' # <<>>
                /\ Last(history') =
                       [player1_move |-> player1_move, player2_move |-> player2_move,
                        player1_result |-> r1, player2_result |-> r2]
                /\ player1_history' # <<>>
                /\ Last(player1_history') =
                       [player_move |-> player1_move, opponent_move |-> player2_move,
                        player_result |-> r1, opponent_result |-> r2]
                /\ player2_history' # <<>>
                /\ Last(player2_history') =
                       [player_move |-> player2_move, opponent_move |-> player1_move,
                        player_result |-> r2, opponent_result |-> r1] ]_vars

C13_Witness ==
    /\ pc = "idle"
    /\ ret.op = "play_turn"
    /\ ret.err = "none"
    /\ Len(history) = 2
    /\ Last(history) = [player1_move |-> "rock", player2_move |-> "paper",
                        player1_result |-> LOSE, player2_result |-> WIN]
    /\ Last(player2_history) = [player_move |-> "paper", opponent_move |-> "rock",
                                player_result |-> WIN, opponent_result |-> LOSE]

\* C14: the histories are append-only: every step keeps each record of the
\* three histories at its position, no history gets shorter, and a player's
\* history changes only by one record appended to it.
C14_AppendOnly ==
    [][ /\ IsPrefix(player1_history, player1_history')
        /\ IsPrefix(player2_history, player2_history')
        /\ IsPrefix(history, history')
        /\ player1_history' # player1_history =>
               Len(player1_history') = Len(player1_history) + 1
        /\ player2_history' # player2_history =>
               Len(player2_history') = Len(player2_history) + 1 ]_vars

C14_Witness ==
    /\ GotCurrentResult
    /\ Len(player1_history) = 3
    /\ player1_history[1].player_move = "scissors"
    /\ player1_history[3].player_move = "rock"

\* the record a player keeps of a turn of the handler history
Mirrored(turn, player) ==
    IF player = 1
    THEN [player_move |-> turn.player1_move, opponent_move |-> turn.player2_move,
          player_result |-> turn.player1_result,
          opponent_result |-> turn.player2_result]
    ELSE [player_move |-> turn.player2_move, opponent_move |-> turn.player1_move,
          player_result |-> turn.player2_result,
          opponent_result |-> turn.player1_result]

\* C18: for two distinct players new to the handler, between turns, after
\* successful and failed play_turn calls alike, the three histories have the
\* same length and record k of each describes the same turn k.
C18_Lockstep ==
    pc \in {"idle", "player1_play"} =>
        /\ Len(player1_history) = Len(history)
        /\ Len(player2_history) = Len(history)
        /\ \A k \in 1..Len(history) :
               /\ player1_history[k] = Mirrored(history[k], 1)
               /\ player2_history[k] = Mirrored(history[k], 2)

C18_Witness ==
    /\ pc = "idle"
    /\ ret.err = "AssertionError"
    /\ turns_returned = 2
    /\ Len(player2_history) = 2
    /\ history[1].player1_result = WIN
    /\ history[2].player1_result = TIE

\* what player2 can read when it chooses: the game and its own history
Player2View == <<selections, relations, player2_history>>

\* C17: in a turn player1 is asked first and player2 second, and no player
\* observes before both moves are there and resolved; so what player2 can
\* read when it chooses (the game and its own history) is what it was before
\* player1 chose, whichever move player1 chose.
C17_MovesBeforeObserve ==
    [][ /\ pc' = "player2_play" =>
               /\ pc \in {"player1_play", "player2_play"}
               /\ Player2View' = Player2View
        /\ pc' = "resolve" =>
               /\ pc \in {"player2_play", "resolve"}
               /\ player1_move' = player1_move
        /\ (player1_history' # player1_history
                \/ player2_history' # player2_history
                \/ history' # history) =>
               /\ pc = "resolve"
               /\ Valid(player1_move)
               /\ Valid(player2_move) ]_vars

C17_Witness ==
    /\ pc = "player2_play"
    /\ mode = "play_turn"
    /\ player1_move = "scissors"
    /\ Len(player2_history) = 1
    /\ player2_history[1].opponent_move = "rock"

-----------------------------------------------------------------------------
(* Properties of play without a limit, checked under SpecMain *)

\* C16: with max_num_of_turns None and players that return valid moves, play
\* never leaves its loop, and the handler history, growing by one record at a
\* time, reaches every length (here: every length up to MaxHistory).
C16_PlayWithoutLimit ==
    /\ [][ (mode = "play" /\ max_num_of_turns = {}) => mode' = "play" ]_vars
    /\ [][ Len(history') \in {Len(history), Len(history) + 1} ]_vars
    /\ (mode = "play" /\ max_num_of_turns = {}) ~> (Len(history) = MaxHistory)

C16_Witness ==
    /\ mode = "play"
    /\ max_num_of_turns = {}
    /\ i_turn = 3
    /\ Len(history) = 3
    /\ pc = "player1_play"

-----------------------------------------------------------------------------
(* Properties of HumanPlayer.ask_move, checked under SpecAsk *)

\* C15: ask_move returns only on an answer that is exactly one of the
\* selections, and returns that answer; any other answer, after any number
\* of them, leaves it asking with nothing but the consumed input changed; so
\* the move returned is a selection and every answer before it was none.
C15_AskMove ==
    /\ [][ (pc = "ask_move" /\ answers' # answers) =>
               LET answer == Last(answers')
               IN  /\ answers' = Append(answers, answer)
                   /\ Valid(answer) =>
                          /\ pc' = "idle"
                          /\ ret'.op = "ask_move"
                          /\ ret'.err = "none"
                          /\ ret'.val = answer
                   /\ ~Valid(answer) =>
                          /\ pc' = "ask_move"
                          /\ ret' = ret
                   /\ UNCHANGED <<selections, relations, player1_history,
                                  player2_history, history, mode, player1_move,
                                  player2_move>> ]_vars
    /\ [](ret.op = "ask_move" =>
               /\ ret.err = "none"
               /\ Valid(ret.val)
               /\ ret.val = Last(answers)
               /\ \A k \in 1..(Len(answers) - 1) : ~Valid(answers[k]))

C15_Witness ==
    /\ ret.op = "ask_move"
    /\ ret.val = "rock"
    /\ answers = <<"Rock", "", "lizard", "rock">>

====
